---- MODULE Spec2Model ----
(***************************************************************************)
(* Kissy: mirror resolution and bounded-concurrency download pipeline.     *)
(*                                                                         *)
(* Three state machines share this module:                                 *)
(*   Spec      the download stage of run(): download_episode tasks, the    *)
(*             token pool of get_connection, the files on disk, gather;    *)
(*   SpecFetch retryable_get_request for a retry bound drawn at Init;      *)
(*   SpecLink  get_download_link over the server registry.                 *)
(* One action is the code that runs between two suspension points of the   *)
(* asyncio event loop (single-threaded cooperative scheduling).            *)
(***************************************************************************)
EXTENDS Integers, Sequences, FiniteSets, TLC

\* ------------------------------------------------------------- bounds
\* Episodes discovered by the listing (run() asks for 12; scaled down).
NumEpisodes == 3

\* Tokens the pool is seeded with (run() seeds 10; scaled down so that more
\* downloads than tokens are launched).
max_parallel_downloads == 2

\* Longest response body, in chunks.
MaxChunks == 1

\* Largest retry bound retryable_get_request is called with.
MaxRetry == 5

\* Highest episode number a listing page shows.
MaxListing == 15

\* Largest ep_count get_episode_links is called with.
MaxCount == 12

\* Longest embed link, in segments.
MaxSegments == 4

\* ------------------------------------------------------------- state
VARIABLES
    pool,          \* asyncio.Queue of tokens: a sequence of items
    pc,            \* per download task: the suspension point it waits at
    item,          \* per download task: the token it holds, or NoItem
    result,        \* per download task: outcome of download_episode
    plain,         \* per episode: the entry at <path>/<name>
    plain0,        \* per episode: that entry as run() found it
    mp4,           \* per episode: os.path.isfile(<path>/<name>.mp4)
    total_bar,     \* the 'Downloading episodes' counter
    stage,         \* where run() is in its download stage
    total_downloaded,
    opened,        \* history: the download tasks that created or truncated a file
    rq,            \* one call of retryable_get_request
    registry,      \* DOWNLOAD_METHODS: the servers, best first
    quality,       \* the quality get_download_link is asked for
    gl,            \* one call of get_download_link
    episode_links, \* run(): how many episodes the listing gave
    download_links,\* run(): per episode, what its get_download_link task gave
    links_bar,     \* the 'Collecting download links' counter
    made_dir,      \* history: run() has called os.mkdir(anime_title)
    launches,      \* history: per episode, the download tasks created for it
    exit_code,     \* how the process ended, "none" while it runs
    gel,           \* one call of get_episode_links
    mp             \* one call of get_mp4upload_link

dvars == <<pool, pc, item, result, plain, plain0, mp4, total_bar, stage,
           total_downloaded, opened>>

rvars == <<episode_links, download_links, links_bar, made_dir, launches, exit_code>>

xvars == <<rvars, gel, mp>>

Tasks == 1..NumEpisodes
NoItem == -1
Tokens == 0..(max_parallel_downloads - 1)

\* A directory entry at <path>/<name>.
Absent == [kind |-> "absent", len |-> 0]
Old == [kind |-> "old", len |-> 0]        \* a file that was there before the run
Dir == [kind |-> "dir", len |-> 0]        \* a directory of that name
New(k) == [kind |-> "new", len |-> k]     \* a file this run created, k chunks long

\* ------------------------------------------------------------- token pool
RECURSIVE Seed(_)
Seed(k) == IF k = 0 THEN <<>> ELSE Append(Seed(k - 1), k - 1)

\* queue.get() returns at once when the queue holds an item, else it suspends.
QueueCanGet(q) == Len(q) > 0
QueueGetItem(q) == Head(q)
QueueAfterGetKeeps(q) == q
QueueAfterGet(q) == Tail(q)

QueuePutLost(q, it) == q
QueuePutTwice(q, it) == Append(Append(q, it), it)
\* queue.put(item) on an unbounded queue never suspends.
QueuePut(q, it) == Append(q, it)

\* get_connection's finally clause, for a task that may or may not be in scope.
Release(q, it) == IF it = NoItem THEN q ELSE QueuePut(q, it)

\* ------------------------------------------------------------- file system
\* os.path.isfile(file_target), file_target = f'{path}/{name}.mp4'
FileTargetExists(t) == mp4[t]

\* aiofiles.open(f'{path}/{name}', mode='wb'): fails on a directory, else
\* creates the file or truncates the one that is there.
OpenFails(f) == f.kind = "dir"
OpenWb(f) == New(0)

\* os.remove(f'{path}/{name}'): FileNotFoundError is swallowed, any other
\* OSError (the name is a directory) leaves the handler.
RemoveRaises(f) == f.kind = "dir"
RemoveKeepsFile(f) == f
Remove(f) == IF f.kind \in {"old", "new"} THEN Absent ELSE f

\* ------------------------------------------------------------- download_episode
BarUpdateSkipped(n) == n
\* finally: total_bar.update(1)
BarUpdate(n) == n + 1

InScope(t) == pc[t] \in {"request", "open", "stream", "sleep"}
Pending(t) == pc[t] \in {"created", "request", "open", "stream", "sleep"}
Launched(t) == pc[t] # "unlaunched"

\* The except Exception handler and the finally clause of download_episode,
\* entered from inside or outside the get_connection scope.
Fail(t) ==
    /\ pool' = Release(pool, item[t])
    /\ item' = [item EXCEPT ![t] = NoItem]
    /\ plain' = [plain EXCEPT ![t] = Remove(plain[t])]
    /\ result' = [result EXCEPT ![t] =
                    IF RemoveRaises(plain[t]) THEN "raised" ELSE "False"]
    /\ pc' = [pc EXCEPT ![t] = "done"]
    /\ total_bar' = BarUpdate(total_bar)

\* async with get_connection(pool): the token is taken, then the target is
\* looked up before the next suspension.
Acquire(t) ==
    /\ pc[t] = "created"
    /\ QueueCanGet(pool)
    /\ IF FileTargetExists(t)
       THEN /\ pool' = QueuePut(QueueAfterGet(pool), QueueGetItem(pool))
            /\ plain' = [plain EXCEPT ![t] = Remove(plain[t])]
            /\ result' = [result EXCEPT ![t] =
                            IF RemoveRaises(plain[t]) THEN "raised" ELSE "False"]
            /\ pc' = [pc EXCEPT ![t] = "done"]
            /\ total_bar' = BarUpdate(total_bar)
            /\ UNCHANGED item
       ELSE /\ pool' = QueueAfterGet(pool)
            /\ item' = [item EXCEPT ![t] = QueueGetItem(pool)]
            /\ pc' = [pc EXCEPT ![t] = "request"]
            /\ UNCHANGED <<plain, result, total_bar>>
    /\ UNCHANGED <<plain0, mp4, stage, total_downloaded, opened, rq, registry, quality, gl, xvars>>

ResponseOutcomes == {"ok", "transport_error", "bad_status", "bad_length"}

\* async with req_method(link) as resp: status and content-length are read.
Response(t) ==
    /\ pc[t] = "request"
    /\ \E o \in ResponseOutcomes :
         IF o = "ok"
         THEN /\ pc' = [pc EXCEPT ![t] = "open"]
              /\ UNCHANGED <<pool, item, plain, result, total_bar>>
         ELSE Fail(t)
    /\ UNCHANGED <<plain0, mp4, stage, total_downloaded, opened, rq, registry, quality, gl, xvars>>

\* async with aiofiles.open(f'{path}/{name}', mode='wb') as file
Open(t) ==
    /\ pc[t] = "open"
    /\ \E ok \in BOOLEAN :
         IF ok /\ ~OpenFails(plain[t])
         THEN /\ plain' = [plain EXCEPT ![t] = OpenWb(plain[t])]
              /\ opened' = opened \cup {t}
              /\ pc' = [pc EXCEPT ![t] = "stream"]
              /\ UNCHANGED <<pool, item, result, total_bar>>
         ELSE Fail(t) /\ UNCHANGED opened
    /\ UNCHANGED <<plain0, mp4, stage, total_downloaded, rq, registry, quality, gl, xvars>>

ChunkOutcomes == {"chunk", "eof", "read_error", "write_error"}

\* One turn of the async for over the response body, or its end.
Chunk(t) ==
    /\ pc[t] = "stream"
    /\ \E o \in ChunkOutcomes :
         CASE o = "chunk" ->
                /\ plain[t].len < MaxChunks
                /\ plain' = [plain EXCEPT ![t] = New(plain[t].len + 1)]
                /\ UNCHANGED <<pool, item, result, total_bar, pc>>
           [] o = "eof" ->
                /\ pc' = [pc EXCEPT ![t] = "sleep"]
                /\ UNCHANGED <<pool, item, plain, result, total_bar>>
           [] OTHER -> Fail(t)
    /\ UNCHANGED <<plain0, mp4, stage, total_downloaded, opened, rq, registry, quality, gl, xvars>>

\* asyncio.sleep(5) is over: the scopes are left and True is returned.
Finish(t) ==
    /\ pc[t] = "sleep"
    /\ pool' = Release(pool, item[t])
    /\ item' = [item EXCEPT ![t] = NoItem]
    /\ result' = [result EXCEPT ![t] = "True"]
    /\ pc' = [pc EXCEPT ![t] = "done"]
    /\ total_bar' = BarUpdate(total_bar)
    /\ UNCHANGED <<plain, plain0, mp4, stage, total_downloaded, opened, rq, registry, quality, gl, xvars>>

\* ------------------------------------------------------------- run(): gather
Successes == {t \in Tasks : result[t] = "True"}
Failures == {t \in Tasks : result[t] = "False"}

\* results = await asyncio.gather(*tasks); total_downloaded is counted.
GatherReturn ==
    /\ stage = "DOWNLOAD"
    /\ \A t \in Tasks : Launched(t) => result[t] \in {"True", "False"}
    /\ stage' = "REPORT"
    /\ total_downloaded' = Cardinality(Successes)
    /\ UNCHANGED <<pool, pc, item, result, plain, plain0, mp4, total_bar>>
    /\ UNCHANGED <<opened, rq, registry, quality, gl, xvars>>

\* gather without return_exceptions hands the first exception to run().
GatherRaise ==
    /\ stage = "DOWNLOAD"
    /\ \E t \in Tasks : result[t] = "raised"
    /\ stage' = "RAISED"
    /\ UNCHANGED <<pool, pc, item, result, plain, plain0, mp4, total_bar,
                   total_downloaded, opened, rq, registry, quality, gl, xvars>>

RECURSIVE ReleaseAll(_, _)
ReleaseAll(q, ts) ==
    IF ts = {} THEN q
    ELSE LET t == CHOOSE x \in ts : \A y \in ts : x <= y
         IN  ReleaseAll(Release(q, item[t]), ts \ {t})

\* run() has left with the exception: asyncio.run cancels every task that is
\* still pending. CancelledError passes `except Exception` where it is a
\* BaseException (Python 3.8 on) and is caught by it on Python 3.7.
CancelAll ==
    /\ stage = "RAISED"
    /\ stage' = "EXITED"
    /\ \E caught \in BOOLEAN :
         /\ pool' = ReleaseAll(pool, {t \in Tasks : Pending(t)})
         /\ item' = [t \in Tasks |-> IF Pending(t) THEN NoItem ELSE item[t]]
         /\ pc' = [t \in Tasks |-> IF Pending(t) THEN "done" ELSE pc[t]]
         /\ plain' = [t \in Tasks |->
                        IF Pending(t) /\ caught THEN Remove(plain[t]) ELSE plain[t]]
         /\ result' = [t \in Tasks |->
                        IF ~Pending(t) THEN result[t]
                        ELSE IF ~caught THEN "cancelled"
                        ELSE IF RemoveRaises(plain[t]) THEN "raised" ELSE "False"]
         /\ total_bar' = total_bar + Cardinality({t \in Tasks : Pending(t)})
    /\ UNCHANGED <<plain0, mp4, total_downloaded, opened, rq, registry, quality, gl, xvars>>


\* ------------------------------------------------------------- retryable_get_request
Statuses == {200, 302, 404}

\* A mirror's quality list, as its page or API shows it, oldest entry first.
OfferedLists == {<<>>, <<"480p">>, <<"360p", "720p">>, <<"360p", "480p", "720p">>}

\* What the model keeps of a response body: whether VIDEO_LINK_PATTERN matches
\* it, the quality labels it lists and the resolution it states.
Pages == [embed : BOOLEAN, offered : OfferedLists, res : {<<854, 480>>, <<1280, 720>>}]
NoPage == [embed |-> FALSE, offered |-> <<>>, res |-> <<0, 0>>]

\* What one session.get can end in.
GetOutcomes ==
    [kind : {"timeout", "error"}, page : {NoPage}, status : {0}]
        \cup [kind : {"response"}, page : Pages, status : Statuses]

\* The call as it starts: for i in range(retry_count).
FetchStart(R) ==
    [retry_count |-> R, i |-> 0, log |-> <<>>, sleeps |-> 0,
     at |-> IF R > 0 THEN "get" ELSE "returned_none",
     exc |-> "none", page |-> NoPage, status |-> 0]

FetchActive(f) == f.at \in {"get", "sleep"}

LastAttemptEarly(f) == f.i >= f.retry_count - 2
\* if i == retry_count - 1: raise
LastAttempt(f) == f.i = f.retry_count - 1

ReturnsOnlyOn200(o) == o.kind = "response" /\ o.status = 200
\* The else branch of the try: any response at all, whatever its status.
Returns(o) == o.kind = "response"

\* session.get(...) and resp.text() have ended in outcome o.
FetchGet(f, o) ==
    LET g == [f EXCEPT !.log = Append(f.log, o)]
    IN  IF Returns(o)
        THEN [g EXCEPT !.at = "returned", !.page = o.page, !.status = o.status]
        ELSE IF o.kind = "timeout"
        THEN IF LastAttempt(f)
             THEN [g EXCEPT !.at = "raised", !.exc = "TimeoutError"]
             ELSE [g EXCEPT !.at = "sleep"]
        ELSE [g EXCEPT !.at = "raised", !.exc = "ClientError"]

\* asyncio.sleep(1) is over: the loop takes its next turn, or ends.
FetchWake(f) ==
    [f EXCEPT !.sleeps = f.sleeps + 1, !.i = f.i + 1,
              !.at = IF f.i + 1 < f.retry_count THEN "get" ELSE "returned_none"]

RqGet ==
    /\ rq.at = "get"
    /\ \E o \in GetOutcomes : rq' = FetchGet(rq, o)
    /\ UNCHANGED <<dvars, registry, quality, gl, xvars>>

RqWake ==
    /\ rq.at = "sleep"
    /\ rq' = FetchWake(rq)
    /\ UNCHANGED <<dvars, registry, quality, gl, xvars>>


\* ------------------------------------------------------------- server resolvers
VideoQuality == {"360p", "480p", "720p", "1080p", "highest", "lowest"}

NOVA == "nova"
RAPIDVIDEO == "rapidvideo"
MP4UPLOAD == "mp4upload"

NoLink == [server |-> "none", label |-> "none"]
Link(srv, l) == [kind |-> "link", link |-> [server |-> srv, label |-> l], exc |-> "none"]
Raise(e) == [kind |-> "exc", link |-> NoLink, exc |-> e]

\* next((item for item in links if ...), None): the first entry that matches.
Matches(offered, q) == {k \in 1..Len(offered) : offered[k] = q}
FirstMatch(offered, q) ==
    offered[CHOOSE k \in Matches(offered, q) : \A j \in Matches(offered, q) : k <= j]

\* links[-1], or the named quality's first link, of a download page or API
\* answer that was received with `status`.
PickLink(srv, page, status, q) ==
    IF status # 200 THEN Raise("RuntimeError")
    ELSE IF q = "highest"
    THEN IF page.offered = <<>> THEN Raise("IndexError")
         ELSE Link(srv, page.offered[Len(page.offered)])
    ELSE IF Matches(page.offered, q) = {} THEN Raise("NoQualityFound")
    ELSE Link(srv, FirstMatch(page.offered, q))

\* '1280 x 720'.split('x ')[-1] + 'p'
HeightLabel(res) ==
    CASE res[2] = 360 -> "360p"
      [] res[2] = 480 -> "480p"
      [] res[2] = 720 -> "720p"
      [] res[2] = 1080 -> "1080p"
      [] OTHER -> "0p"

Mp4uploadReturnsAtOnceForHighest(q) == q = "highest"
\* get_mp4upload_link returns before any request for the two sentinels.
Mp4uploadReturnsAtOnce(q) == q \in {"lowest", "highest"}

\* get_mp4upload_link once its page is there.
Mp4uploadLink(page, status, q) ==
    IF status # 200 THEN Raise("RuntimeError")
    ELSE IF q # HeightLabel(page.res) THEN Raise("NoQualityFound")
    ELSE Link(MP4UPLOAD, HeightLabel(page.res))

\* ------------------------------------------------------------- get_download_link
\* retryable_get_request(session, link, 5, 5): the retry bound of every call.
RETRY_COUNT == 5

FetchIdle == [FetchStart(0) EXCEPT !.at = "idle"]

ServerAtReversed(reg, k) == reg[Len(reg) + 1 - k]
\* for server, method in DOWNLOAD_METHODS.items(): the k-th entry.
ServerAt(reg, k) == reg[k]

RedirectedNot200(status) == status # 200
\* if status == 302: continue
Redirected(status) == status = 302

\* The call has ended by returning link l or by raising e.
GlDone(g, out, l) ==
    [g EXCEPT !.at = "done", !.outcome = out, !.link = l, !.f = FetchIdle]

\* The loop's turn for entry k: the watch page request is issued, or the loop
\* is over and NoServerFound is raised.
GlTurn(g, k) ==
    IF k <= Len(registry)
    THEN [g EXCEPT !.s = k, !.at = "watch", !.f = FetchStart(RETRY_COUNT),
                   !.fetched = Append(g.fetched, ServerAt(registry, k))]
    ELSE GlDone([g EXCEPT !.s = k], "NoServerFound", NoLink)

OnNoQualityFoundFallBack(g) == GlTurn(g, g.s + 1)
\* except NoQualityFound: pb.write(...); raise
OnNoQualityFound(g) == GlDone(g, "NoQualityFound", NoLink)

\* The resolver has ended in r: return DownloadLink(...) or the exception.
GlResolved(g, r) ==
    LET h == [g EXCEPT !.signals = Append(g.signals,
                            IF r.kind = "link" THEN "link" ELSE r.exc)]
    IN  IF r.kind = "link" THEN GlDone(h, "link", r.link)
        ELSE IF r.exc = "NoQualityFound" THEN OnNoQualityFound(h)
        ELSE GlDone(h, r.exc, NoLink)

\* method(session, video_link, quality) up to its first suspension.
GlInvoke(g, srv) ==
    LET h == [g EXCEPT !.invoked = Append(g.invoked, srv)]
    IN  CASE srv = RAPIDVIDEO ->
               [h EXCEPT !.at = "resolver", !.f = FetchStart(RETRY_COUNT)]
          [] srv = NOVA -> [h EXCEPT !.at = "post", !.f = FetchIdle]
          [] srv = MP4UPLOAD ->
               IF Mp4uploadReturnsAtOnce(quality)
               THEN GlResolved(h, Link(MP4UPLOAD, "only"))
               ELSE [h EXCEPT !.at = "resolver", !.f = FetchStart(RETRY_COUNT)]

OnWatchRaisedNextServer(g, f) == GlTurn([g EXCEPT !.wfail = f], g.s + 1)
\* The exception of retryable_get_request(session, link + f"&s={server}", ...)
\* is not caught in get_download_link: it ends the call.
OnWatchRaised(g, f) == GlDone([g EXCEPT !.wfail = f], f.exc, NoLink)

PbUpdateSkipped(n) == n
\* pb.update(1)
PbUpdate(n) == n + 1

\* The watch page request of the current server has ended (fetch record f).
GlAfterWatch(g, f) ==
    IF f.at = "raised" THEN OnWatchRaised(g, f)
    ELSE LET h == [g EXCEPT !.answers = Append(g.answers, f.status)]
         IN  IF Redirected(f.status) THEN GlTurn(h, g.s + 1)
             ELSE IF ~f.page.embed THEN GlDone(h, "IndexError", NoLink)
             ELSE GlInvoke([h EXCEPT !.pb = PbUpdate(g.pb)], ServerAt(registry, g.s))

\* The resolver's own page request has ended (fetch record f).
GlAfterResolverFetch(g, f) ==
    IF f.at = "raised" THEN GlResolved(g, Raise(f.exc))
    ELSE IF ServerAt(registry, g.s) = RAPIDVIDEO
    THEN GlResolved(g, PickLink(RAPIDVIDEO, f.page, f.status, quality))
    ELSE GlResolved(g, Mp4uploadLink(f.page, f.status, quality))

\* A session.get of retryable_get_request ends, inside get_download_link or
\* inside the resolver it called.
GlGet ==
    /\ gl.at \in {"watch", "resolver"}
    /\ gl.f.at = "get"
    /\ \E o \in GetOutcomes :
         LET f == FetchGet(gl.f, o)
             g == [gl EXCEPT !.gets = gl.gets + 1,
                             !.rgets = gl.rgets + (IF gl.at = "resolver" THEN 1 ELSE 0)]
         IN  gl' = IF FetchActive(f) THEN [g EXCEPT !.f = f]
                   ELSE IF gl.at = "watch" THEN GlAfterWatch(g, f)
                   ELSE GlAfterResolverFetch(g, f)
    /\ UNCHANGED <<dvars, rq, registry, quality, xvars>>

\* The asyncio.sleep(1) between two attempts ends.
GlWake ==
    /\ gl.at \in {"watch", "resolver"}
    /\ gl.f.at = "sleep"
    /\ gl' = [gl EXCEPT !.f = FetchWake(gl.f)]
    /\ UNCHANGED <<dvars, rq, registry, quality, xvars>>

\* get_nova_link: session.post(NOVAPLANET_API + ep_id) ends; it is not retried.
GlPost ==
    /\ gl.at = "post"
    /\ \E o \in GetOutcomes :
         LET g == [gl EXCEPT !.rgets = gl.rgets + 1]
         IN  gl' = CASE o.kind = "timeout" -> GlResolved(g, Raise("TimeoutError"))
                     [] o.kind = "error" -> GlResolved(g, Raise("ClientError"))
                     [] OTHER -> GlResolved(g, PickLink(NOVA, o.page, o.status, quality))
    /\ UNCHANGED <<dvars, rq, registry, quality, xvars>>

\* The registry as shipped holds rapidvideo alone; the two entries that are
\* commented out give the other registries, in the same order.
Registries ==
    {<<RAPIDVIDEO>>, <<NOVA>>, <<MP4UPLOAD>>, <<NOVA, RAPIDVIDEO>>,
     <<RAPIDVIDEO, MP4UPLOAD>>, <<NOVA, MP4UPLOAD>>, <<NOVA, RAPIDVIDEO, MP4UPLOAD>>}

GlBlank ==
    [s |-> 0, at |-> "idle", f |-> FetchIdle, outcome |-> "none", link |-> NoLink,
     pb |-> 0, fetched |-> <<>>, answers |-> <<>>, invoked |-> <<>>,
     signals |-> <<>>, gets |-> 0, rgets |-> 0, wfail |-> FetchIdle]

\* ------------------------------------------------------------- get_mp4upload_link
\* A link is kept as the sequence of its segments, cut so that 'embed-' is a
\* segment of its own: https://www.mp4upload.com/embed-jby2ms8ipq5d.html
Segments == {"https://www.mp4upload.com/", "embed-", "jby2ms8ipq5d.html"}

RECURSIVE SeqsUpTo(_)
SeqsUpTo(n) ==
    IF n = 0 THEN {<<>>}
    ELSE SeqsUpTo(n - 1) \cup
         {Append(l, x) : l \in {m \in SeqsUpTo(n - 1) : Len(m) = n - 1}, x \in Segments}

RECURSIVE Replace(_, _)
\* link.replace(old, ''): every occurrence of old is dropped.
Replace(link, old) ==
    IF link = <<>> THEN <<>>
    ELSE IF Head(link) = old THEN Replace(Tail(link), old)
    ELSE <<Head(link)>> \o Replace(Tail(link), old)

\* get_mp4upload_link(session, link, quality) up to its first suspension.
MpCall ==
    /\ mp.at = "called"
    /\ LET link == Replace(mp.link, "embed-")
       IN  mp' = IF Mp4uploadReturnsAtOnce(quality)
                 THEN [mp EXCEPT !.at = "returned", !.ret = link]
                 ELSE [mp EXCEPT !.at = "fetch", !.f = FetchStart(RETRY_COUNT)]
    /\ UNCHANGED <<dvars, rq, registry, quality, gl, rvars, gel>>

\* A session.get of its retryable_get_request ends; on the last one the
\* resolution is compared and the rewritten link returned.
MpGet ==
    /\ mp.at = "fetch"
    /\ mp.f.at = "get"
    /\ \E o \in GetOutcomes :
         LET f == FetchGet(mp.f, o)
             m == [mp EXCEPT !.gets = mp.gets + 1, !.f = f]
             r == Mp4uploadLink(f.page, f.status, quality)
         IN  mp' = IF FetchActive(f) THEN m
                   ELSE IF f.at = "raised" THEN [m EXCEPT !.at = "raised", !.exc = f.exc]
                   ELSE IF r.kind = "exc" THEN [m EXCEPT !.at = "raised", !.exc = r.exc]
                   ELSE [m EXCEPT !.at = "returned",
                                  !.ret = Replace(mp.link, "embed-")]
    /\ UNCHANGED <<dvars, rq, registry, quality, gl, rvars, gel>>

MpWake ==
    /\ mp.at = "fetch"
    /\ mp.f.at = "sleep"
    /\ mp' = [mp EXCEPT !.f = FetchWake(mp.f)]
    /\ UNCHANGED <<dvars, rq, registry, quality, gl, rvars, gel>>

MpIdle == [link |-> <<>>, at |-> "idle", f |-> FetchIdle, ret |-> <<>>, exc |-> "none",
           gets |-> 0]

\* ------------------------------------------------------------- get_episode_links
\* f"{n:03d}": the digits of n, padded with zeros to three places.
Pad3(n) ==
    IF n < 1000 THEN <<n \div 100, (n \div 10) % 10, n % 10>>
    ELSE <<n \div 1000, (n \div 100) % 10, (n \div 10) % 10, n % 10>>

\* The anchors of the listing table for the episodes lo..hi: the site lists
\* the latest first. An anchor is kept as its episode number.
ListingPage(lo, hi) == [k \in 1..(hi - lo + 1) |-> hi + 1 - k]

KeepOrder(seq) == seq
\* episodes.reverse()
Reverse(seq) == [k \in 1..Len(seq) |-> seq[Len(seq) + 1 - k]]

\* f"Episode-{start:03d}" in link['href']: the href holds 'Episode-' followed
\* by the padded number, so the padded start has to begin the href's digits.
HrefHas(start, n) ==
    /\ Len(Pad3(start)) <= Len(Pad3(n))
    /\ \A k \in 1..Len(Pad3(start)) : Pad3(start)[k] = Pad3(n)[k]

\* The for loop with its break: the first index that matches, 0 for None.
FirstIndex(episodes, start) ==
    LET hits == {k \in 1..Len(episodes) : HrefHas(start, episodes[k])}
    IN  IF hits = {} THEN 0 ELSE CHOOSE k \in hits : \A j \in hits : k <= j

\* episodes[first_index:first_index + ep_count]
Slice(episodes, first, count) ==
    LET last == IF first + count - 1 < Len(episodes) THEN first + count - 1
                ELSE Len(episodes)
    IN  [k \in 1..(IF last >= first THEN last - first + 1 ELSE 0) |->
            episodes[first + k - 1]]

\* get_episode_links(soup, start, ep_count): the episodes in dict order, or
\* the TypeError of None + ep_count when no anchor matches.
GetEpisodeLinks(page, start, count) ==
    LET episodes == Reverse(page)
        first == FirstIndex(episodes, start)
    IN  IF first = 0 THEN [raised |-> TRUE, out |-> <<>>]
        ELSE [raised |-> FALSE, out |-> Slice(episodes, first, count)]

GelReturn ==
    /\ gel.at = "called"
    /\ LET r == GetEpisodeLinks(ListingPage(gel.lo, gel.hi), gel.start, gel.ep_count)
       IN  gel' = [gel EXCEPT !.at = IF r.raised THEN "raised" ELSE "returned",
                              !.out = r.out]
    /\ UNCHANGED <<dvars, rq, registry, quality, gl, rvars, mp>>

GelIdle == [lo |-> 1, hi |-> 0, start |-> 0, ep_count |-> 0, at |-> "idle", out |-> <<>>]

\* ------------------------------------------------------------- run(): the stages
\* get_episode_links(soup, 1, 12)
EP_START == 1
EP_COUNT == 12

\* get_tokens, then session.get(KISSANIME_URL) and its status.
Bypass ==
    /\ stage = "BYPASS_PROTECTION"
    /\ \E o \in {"ok", "bad_status", "error"} :
         CASE o = "ok" -> stage' = "FETCH_LISTING" /\ UNCHANGED exit_code
           [] o = "bad_status" -> stage' = "ABORTED" /\ exit_code' = "1"
           [] OTHER -> stage' = "CRASHED" /\ exit_code' = "1"
    /\ UNCHANGED <<pool, pc, item, result, plain, plain0, mp4, total_bar,
                   total_downloaded, opened, rq, registry, quality, gl>>
    /\ UNCHANGED <<episode_links, download_links, links_bar, made_dir, launches,
                   gel, mp>>

\* session.get(anime_url), the title, get_episode_links and the tasks of the
\* resolve stage. The show page lists the episodes lo..hi.
FetchListing ==
    /\ stage = "FETCH_LISTING"
    /\ \E ok \in BOOLEAN, lo \in 1..2, hi \in 0..NumEpisodes :
         LET r == GetEpisodeLinks(ListingPage(lo, hi), EP_START, EP_COUNT)
         IN  IF ~ok
             THEN /\ stage' = "CRASHED" /\ exit_code' = "1"
                  /\ UNCHANGED <<episode_links, download_links>>
             ELSE IF r.raised \/ Len(r.out) = 0
             THEN /\ stage' = "ABORTED" /\ exit_code' = "1"
                  /\ UNCHANGED <<episode_links, download_links>>
             ELSE /\ stage' = "RESOLVE_LINKS"
                  /\ episode_links' = Len(r.out)
                  /\ download_links' =
                        [e \in Tasks |-> IF e <= Len(r.out) THEN "pending" ELSE "none"]
                  /\ UNCHANGED exit_code
    /\ UNCHANGED <<pool, pc, item, result, plain, plain0, mp4, total_bar,
                   total_downloaded, opened, rq, registry, quality, gl>>
    /\ UNCHANGED <<links_bar, made_dir, launches, gel, mp>>

\* How one get_download_link task can end, and by how much it has advanced
\* the link-collection counter by then.
LinkSummaries ==
    [outcome : {"link", "NoQualityFound", "RuntimeError"}, pb : {1}]
        \cup [outcome : {"NoServerFound"}, pb : {0}]
        \cup [outcome : {"TimeoutError", "ClientError", "IndexError"}, pb : {0, 1}]

\* gather(*tasks, return_exceptions=True) keeps the link or the exception.
Collected(outcome) == IF outcome = "link" THEN "link" ELSE "exception"

\* The get_download_link task of episode e ends.
Resolve(e) ==
    /\ stage = "RESOLVE_LINKS"
    /\ download_links[e] = "pending"
    /\ \E r \in LinkSummaries :
         /\ download_links' = [download_links EXCEPT ![e] = Collected(r.outcome)]
         /\ links_bar' = links_bar + r.pb
    /\ UNCHANGED <<dvars, rq, registry, quality, gl, gel, mp>>
    /\ UNCHANGED <<episode_links, made_dir, launches, exit_code>>

GatherAnyDone(dl) == \E e \in Tasks : dl[e] \in {"link", "exception"}
\* await asyncio.gather(*tasks, return_exceptions=True) returns when every
\* task has ended.
GatherDone(dl) == \A e \in Tasks : dl[e] # "pending"

\* sum([1 for i in download_links if not isinstance(i, Exception)])
LinksFound(dl) == Cardinality({e \in Tasks : dl[e] = "link"})

ToDownloadAll(dl) == {e \in Tasks : dl[e] \in {"link", "exception"}}
\* [... for ep in download_links if not isinstance(ep, Exception)]
ToDownload(dl) == {e \in Tasks : dl[e] = "link"}

\* gather has every result: links_found is counted; with none the run exits,
\* else the pool is seeded, the directory made (FileExistsError is passed
\* over, any other OSError ends run()) and the download tasks created.
StartDownloads ==
    /\ stage = "RESOLVE_LINKS"
    /\ GatherDone(download_links)
    /\ IF LinksFound(download_links) = 0
       THEN /\ stage' = "ABORTED" /\ exit_code' = "1"
            /\ UNCHANGED <<pool, pc, made_dir, launches>>
       ELSE /\ pool' = Seed(max_parallel_downloads)
            /\ made_dir' = TRUE
            /\ \E mkdir_ok \in BOOLEAN :
                 IF mkdir_ok
                 THEN /\ pc' = [t \in Tasks |->
                                  IF t \in ToDownload(download_links) THEN "created"
                                  ELSE pc[t]]
                      /\ launches' = [t \in Tasks |->
                                  launches[t] +
                                  (IF t \in ToDownload(download_links) THEN 1 ELSE 0)]
                      /\ stage' = "DOWNLOAD"
                      /\ UNCHANGED exit_code
                 ELSE /\ stage' = "CRASHED" /\ exit_code' = "1"
                      /\ UNCHANGED <<pc, launches>>
    /\ UNCHANGED <<item, result, plain, plain0, mp4, total_bar, total_downloaded,
                   opened, rq, registry, quality, gl>>
    /\ UNCHANGED <<episode_links, download_links, links_bar, gel, mp>>

RunIdle ==
    /\ episode_links = 0
    /\ download_links = [e \in Tasks |-> "none"]
    /\ links_bar = 0
    /\ made_dir = FALSE
    /\ launches = [e \in Tasks |-> 0]
    /\ exit_code = "none"

\* ------------------------------------------------------------- Init
\* The links that resolved: the first k of the discovered episodes.
LaunchedSets == {1..k : k \in 1..NumEpisodes}

\* What run() can find on disk: one episode has entries already (the tasks
\* are alike, so it is the first one), or none has.
DiskStates ==
    {d \in [Tasks -> [p : {Absent, Old, Dir}, m : BOOLEAN]] :
        \A o \in Tasks \ {1} : d[o] = [p |-> Absent, m |-> FALSE]}

DInit ==
    /\ pool = Seed(max_parallel_downloads)
    /\ \E L \in LaunchedSets :
         pc = [t \in Tasks |-> IF t \in L THEN "created" ELSE "unlaunched"]
    /\ item = [t \in Tasks |-> NoItem]
    /\ result = [t \in Tasks |-> "none"]
    /\ \E d \in DiskStates :
         /\ plain = [t \in Tasks |-> d[t].p]
         /\ mp4 = [t \in Tasks |-> d[t].m]
    /\ plain0 = plain
    /\ total_bar = 0
    /\ stage = "DOWNLOAD"
    /\ total_downloaded = 0
    /\ opened = {}

vars == <<dvars, rq, registry, quality, gl, xvars>>

DIdle ==
    /\ pool = <<>>
    /\ pc = [t \in Tasks |-> "unlaunched"]
    /\ item = [t \in Tasks |-> NoItem]
    /\ result = [t \in Tasks |-> "none"]
    /\ plain = [t \in Tasks |-> Absent]
    /\ plain0 = plain
    /\ mp4 = [t \in Tasks |-> FALSE]
    /\ total_bar = 0
    /\ stage = "idle"
    /\ total_downloaded = 0
    /\ opened = {}

LinkIdle ==
    /\ registry = <<RAPIDVIDEO>>
    /\ quality = "480p"
    /\ gl = GlBlank

\* The download stage of run().
Init ==
    /\ DInit
    /\ rq = FetchIdle
    /\ LinkIdle
    /\ RunIdle
    /\ gel = GelIdle
    /\ mp = MpIdle

Next ==
    \/ \E t \in Tasks : Acquire(t)
    \/ \E t \in Tasks : Response(t)
    \/ \E t \in Tasks : Open(t)
    \/ \E t \in Tasks : Chunk(t)
    \/ \E t \in Tasks : Finish(t)
    \/ GatherReturn
    \/ GatherRaise
    \/ CancelAll

Spec == Init /\ [][Next]_vars

\* One call of retryable_get_request, for every retry bound up to MaxRetry.
InitFetch ==
    /\ DIdle
    /\ LinkIdle
    /\ RunIdle
    /\ gel = GelIdle
    /\ mp = MpIdle
    /\ \E R \in 1..MaxRetry : rq = FetchStart(R)

NextFetch == RqGet \/ RqWake

SpecFetch == InitFetch /\ [][NextFetch]_vars

\* One call of get_download_link, for every registry and quality.
InitLink ==
    /\ DIdle
    /\ RunIdle
    /\ gel = GelIdle
    /\ mp = MpIdle
    /\ rq = FetchIdle
    /\ registry \in Registries
    /\ quality \in VideoQuality
    /\ gl = GlTurn(GlBlank, 1)

NextLink == GlGet \/ GlWake \/ GlPost

SpecLink == InitLink /\ [][NextLink]_vars

\* One call of get_mp4upload_link, for every link and quality.
InitMp4 ==
    /\ DIdle
    /\ rq = FetchIdle
    /\ registry = <<MP4UPLOAD>>
    /\ quality \in VideoQuality
    /\ gl = GlBlank
    /\ RunIdle
    /\ gel = GelIdle
    /\ \E l \in SeqsUpTo(MaxSegments) : mp = [MpIdle EXCEPT !.link = l, !.at = "called"]

NextMp4 == MpCall \/ MpGet \/ MpWake

SpecMp4 == InitMp4 /\ [][NextMp4]_vars

\* One call of get_episode_links, for listings of consecutive episodes.
InitListing ==
    /\ DIdle
    /\ rq = FetchIdle
    /\ LinkIdle
    /\ RunIdle
    /\ mp = MpIdle
    /\ \E lo \in 1..2, hi \in 0..MaxListing, st \in 1..MaxListing, n \in 0..MaxCount :
         gel = [lo |-> lo, hi |-> hi, start |-> st, ep_count |-> n,
                at |-> "called", out |-> <<>>]

NextListing == GelReturn

SpecListing == InitListing /\ [][NextListing]_vars

\* The destination as run() finds it: nothing of the episodes there, or a
\* directory in the place of the first episode's file.
RunDiskStates == {d \in DiskStates : ~d[1].m /\ d[1].p \in {Absent, Dir}}

\* run() from its first stage to its report.
InitRun ==
    /\ pool = <<>>
    /\ pc = [t \in Tasks |-> "unlaunched"]
    /\ item = [t \in Tasks |-> NoItem]
    /\ result = [t \in Tasks |-> "none"]
    /\ \E d \in RunDiskStates :
         /\ plain = [t \in Tasks |-> d[t].p]
         /\ mp4 = [t \in Tasks |-> d[t].m]
    /\ plain0 = plain
    /\ total_bar = 0
    /\ stage = "BYPASS_PROTECTION"
    /\ total_downloaded = 0
    /\ opened = {}
    /\ rq = FetchIdle
    /\ LinkIdle
    /\ RunIdle
    /\ gel = GelIdle
    /\ mp = MpIdle

NextRun ==
    \/ Bypass
    \/ FetchListing
    \/ \E e \in Tasks : Resolve(e)
    \/ StartDownloads
    \/ Next

SpecRun == InitRun /\ [][NextRun]_vars

\* The download stage on a loop that runs every callback that is ready: an
\* operation a task waits for ends, a task that can take a token takes it,
\* and run() goes on once gather has its outcome.
Fairness ==
    /\ \A t \in Tasks :
         /\ WF_vars(Acquire(t))
         /\ WF_vars(Response(t))
         /\ WF_vars(Open(t))
         /\ WF_vars(Chunk(t))
         /\ WF_vars(Finish(t))
    /\ WF_vars(GatherReturn)
    /\ WF_vars(GatherRaise)
    /\ WF_vars(CancelAll)

SpecFair == Spec /\ Fairness

\* ============================================================= claims
Holders == {t \in Tasks : InScope(t)}
Held == {t \in Tasks : item[t] # NoItem}
LaunchedTasks == {t \in Tasks : Launched(t)}

\* C1: in every reachable state of the download stage at most
\* max_parallel_downloads download_episode tasks are inside the get_connection
\* scope, however many downloads were launched and however they interleave.
C1_AtMostNInScope == Cardinality(Holders) <= max_parallel_downloads

\* C1 witness: more downloads than tokens were launched, the scope is full
\* and a further task waits in queue.get() on the empty pool.
C1_Witness ==
    /\ Cardinality(LaunchedTasks) > max_parallel_downloads
    /\ Cardinality(Holders) = max_parallel_downloads
    /\ pool = <<>>
    /\ \E t \in Tasks : pc[t] = "created"

\* C2: a borrowed token is returned on every exit path: tokens in the pool
\* plus tokens held is always N, the holders are exactly the tasks inside the
\* scope, no token is in two places, and once every download task has
\* finished the pool holds N tokens again.
C2_TokensConserved ==
    /\ Len(pool) + Cardinality(Held) = max_parallel_downloads
    /\ Held = Holders
    /\ \A k \in Tokens :
         Cardinality({i \in 1..Len(pool) : pool[i] = k})
             + Cardinality({t \in Tasks : item[t] = k}) = 1
    /\ (\A t \in Tasks : ~Pending(t)) => Len(pool) = max_parallel_downloads

\* C2 witness: every download has finished, one by returning True, one by an
\* exception in its handler and one by being cancelled while it streamed
\* inside the scope, and the pool is full again.
C2_Witness ==
    /\ \A t \in Tasks : pc[t] = "done"
    /\ \E t \in Tasks : result[t] = "True"
    /\ \E t \in Tasks : result[t] = "raised"
    /\ \E t \in Tasks : result[t] = "cancelled" /\ t \in opened
    /\ Len(pool) = max_parallel_downloads

\* C3 (as claimed): download_episode never raises to its caller; every
\* failure of its steps ends in False, and True is returned only when the
\* body was streamed to the end.
C3_NeverRaises ==
    \A t \in Tasks :
        /\ result[t] # "raised"
        /\ result[t] = "True" => t \in opened /\ plain[t].kind = "new"

\* C9 (as claimed): of two resolved links whose one target <path>/<name>
\* exists already, the batch reports 1 success and 1 failure, the download
\* with the existing target is refused and the file is left as it was.
C9_ExistingTargetRefused ==
    \A t \in Tasks :
        (/\ stage = "REPORT"
         /\ Cardinality(LaunchedTasks) = 2
         /\ plain0[t] = Old /\ ~mp4[t])
        => /\ result[t] = "False"
           /\ plain[t] = Old
           /\ (\E o \in Tasks \ {t} : result[o] = "True")
                 => total_downloaded = 1 /\ Cardinality(Failures) = 1

\* C10: a download that returns False leaves no partial file: the file it
\* created is removed before it returns, and a file that was there before is
\* still untouched after the failure only if the download was refused.
C10_NoPartialFile ==
    \A t \in Tasks :
        result[t] = "False"
        => /\ plain[t].kind # "new"
           /\ (plain[t] = Old /\ plain0[t] = Old) => FileTargetExists(t)

\* C10 witness: a download created its file, then failed and returned False,
\* and nothing is left at <path>/<name>.
C10_Witness ==
    \E t \in Tasks :
        /\ result[t] = "False"
        /\ t \in opened
        /\ plain0[t] = Absent
        /\ plain[t] = Absent

\* ------------------------------------------------------------- fetcher claims
Attempts(f) == Len(f.log)
TimedOutBefore(f, n) == \A k \in 1..(n - 1) : f.log[k].kind = "timeout"
AllTimedOut(f) == TimedOutBefore(f, Attempts(f) + 1)

\* C4: when every attempt times out, retryable_get_request makes exactly
\* retry_count GET attempts, sleeps once between two consecutive attempts
\* (retry_count - 1 sleeps, none after the last) and then raises the timeout.
C4_TimeoutsExhaustRetries ==
    AllTimedOut(rq) =>
        /\ rq.at = "get" => rq.sleeps = Attempts(rq) /\ Attempts(rq) < rq.retry_count
        /\ rq.at = "sleep" =>
               rq.sleeps = Attempts(rq) - 1 /\ Attempts(rq) < rq.retry_count
        /\ ~FetchActive(rq) =>
               /\ rq.at = "raised" /\ rq.exc = "TimeoutError"
               /\ Attempts(rq) = rq.retry_count
               /\ rq.sleeps = rq.retry_count - 1

\* C4 witness: a call with the largest retry bound has raised the timeout
\* after as many timed-out attempts.
C4_Witness ==
    /\ rq.retry_count = MaxRetry
    /\ rq.at = "raised" /\ rq.exc = "TimeoutError"
    /\ Attempts(rq) = MaxRetry /\ AllTimedOut(rq)

\* C5: the first attempt that yields a response ends the call with that
\* response's (body, status), whatever the status; an attempt that fails
\* with another error than a timeout is raised at once; in both cases the
\* attempts made are the timed-out ones before it plus one.
C5_FirstResponseReturned ==
    /\ rq.at = "returned" =>
           /\ Attempts(rq) >= 1
           /\ rq.log[Attempts(rq)].kind = "response"
           /\ rq.page = rq.log[Attempts(rq)].page
           /\ rq.status = rq.log[Attempts(rq)].status
    /\ (rq.at = "raised" /\ rq.exc # "TimeoutError") =>
           Attempts(rq) >= 1 /\ rq.log[Attempts(rq)].kind = "error"
    /\ \A k \in 1..Attempts(rq) :
           rq.log[k].kind \in {"response", "error"} =>
               /\ k = Attempts(rq)
               /\ TimedOutBefore(rq, k)
               /\ rq.sleeps = k - 1
               /\ rq.at = IF rq.log[k].kind = "response" THEN "returned" ELSE "raised"

\* C5 witness: after two timeouts the third attempt answered 404 and the call
\* returned it.
C5_Witness ==
    /\ rq.at = "returned" /\ rq.status = 404
    /\ Attempts(rq) = 3 /\ TimedOutBefore(rq, 3)

\* ------------------------------------------------------------- orchestrator claims
IsPrefix(a, b) == Len(a) <= Len(b) /\ \A k \in 1..Len(a) : a[k] = b[k]

\* C6: the servers are consulted in registry order, a server that answers 302
\* is skipped, and the episode is resolved by the first server that does not:
\* no other resolver is invoked and a returned link is that server's link.
C6_FirstAvailableServerResolves ==
    /\ IsPrefix(gl.fetched, registry)
    /\ Len(gl.answers) <= Len(gl.fetched)
    /\ \A k \in 1..(Len(gl.answers) - 1) : gl.answers[k] = 302
    /\ Len(gl.invoked) <= 1
    /\ gl.invoked # <<>> =>
           /\ Len(gl.answers) = Len(gl.fetched)
           /\ gl.answers[Len(gl.answers)] # 302
           /\ gl.invoked[1] = registry[Len(gl.answers)]
    /\ (gl.answers # <<>> /\ gl.answers[Len(gl.answers)] = 302) =>
           gl.invoked = <<>> /\ gl.outcome \in {"none", "NoServerFound", "TimeoutError", "ClientError"}
    /\ gl.outcome = "link" =>
           gl.invoked # <<>> /\ gl.link.server = gl.invoked[1]

\* C6 witness: the first server redirected, the second answered 200 and the
\* link was produced by the second server's resolver.
C6_Witness ==
    /\ Len(registry) >= 2
    /\ gl.answers = <<302, 200>>
    /\ gl.outcome = "link"
    /\ gl.link.server = registry[2]
    /\ gl.invoked = <<registry[2]>>

\* C7: once the resolver of the first server that did not redirect signals
\* quality-not-found, the call has ended with that signal: no further watch
\* page was fetched and no other resolver was invoked.
C7_NoQualityFoundIsTerminal ==
    \A k \in 1..Len(gl.signals) :
        gl.signals[k] = "NoQualityFound" =>
            /\ gl.at = "done" /\ gl.outcome = "NoQualityFound"
            /\ Len(gl.signals) = 1 /\ Len(gl.invoked) = 1
            /\ Len(gl.fetched) = Len(gl.answers)
            /\ gl.fetched[Len(gl.fetched)] = gl.invoked[1]

\* C7 witness: the call ended in quality-not-found although a server of
\* lower priority was left in the registry.
C7_Witness ==
    /\ gl.outcome = "NoQualityFound"
    /\ Len(gl.fetched) < Len(registry)

AllRedirected ==
    /\ Len(gl.answers) = Len(registry)
    /\ \A k \in 1..Len(gl.answers) : gl.answers[k] = 302

\* C8: when every server of the registry answers 302 the call invokes no
\* resolver and ends in no-server-found, and it ends so in no other case.
C8_NoServerFoundIffAllRedirect ==
    /\ AllRedirected =>
           gl.at = "done" /\ gl.outcome = "NoServerFound" /\ gl.invoked = <<>>
    /\ gl.outcome = "NoServerFound" => AllRedirected /\ gl.invoked = <<>>

\* C8 witness: three servers, each answered 302, and the call ended in
\* no-server-found.
C8_Witness ==
    /\ Len(registry) = 3
    /\ gl.answers = <<302, 302, 302>>
    /\ gl.outcome = "NoServerFound"

\* ------------------------------------------------------------- counter and admission claims
Finished == {t \in Tasks : pc[t] = "done"}

\* C13: the 'Downloading episodes' counter is advanced exactly once for every
\* download attempt that has ended, whether it returned True, returned False
\* or raised, so it counts the ended attempts at every moment and equals the
\* number of launched download tasks once the download stage is over.
C13_OneTickPerAttempt ==
    /\ total_bar = Cardinality(Finished)
    /\ stage \in {"REPORT", "EXITED"} => total_bar = Cardinality(LaunchedTasks)

\* C13 witness: the stage is over with a success and a failure among the
\* launched downloads and the counter shows all of them.
C13_Witness ==
    /\ stage = "REPORT"
    /\ Successes # {}
    /\ Failures # {}
    /\ Cardinality(LaunchedTasks) = NumEpisodes
    /\ total_bar = NumEpisodes

Entered == {t \in Tasks : ~InScope(t) /\ pc'[t] \in {"request", "open", "stream", "sleep"}}
Left == {t \in Tasks : item[t] # NoItem /\ item'[t] = NoItem}

OnlyRedirects(answers) == \A k \in 1..Len(answers) : Redirected(answers[k])

C19_LinkBarOncePerResolvedEmbed ==
    /\ gl.pb = Len(gl.invoked)
    /\ gl.pb <= 1
    /\ OnlyRedirects(gl.answers) => gl.pb = 0
    /\ gl.outcome = "NoServerFound" => gl.pb = 0
    /\ gl.outcome \in {"link", "NoQualityFound"} => gl.pb = 1
    /\ gl.at = "done" => [outcome |-> gl.outcome, pb |-> gl.pb] \in LinkSummaries

\* C19 witness: the first server redirected, the second gave its embed link
\* and its resolver raised NoQualityFound: the counter stands at one.
C19_Witness ==
    /\ gl.at = "done"
    /\ gl.outcome = "NoQualityFound"
    /\ Len(gl.answers) = 2
    /\ Redirected(gl.answers[1])
    /\ gl.pb = 1

Sentinels == {"highest", "lowest"}

\* C15 as stated: for the sentinels highest and lowest get_mp4upload_link
\* returns the link it was given, unchanged, and makes no request.
C15_ReturnsLinkUnchanged ==
    (mp.at = "returned" /\ quality \in Sentinels)
    => mp.ret = mp.link /\ mp.gets = 0

\* C15 amended: for the sentinels highest and lowest get_mp4upload_link
\* returns at once, without any request, the rewritten link: the link it was
\* given with every 'embed-' taken out, which is the given link only when
\* that holds no 'embed-'.
C15_ReturnsRewrittenLink ==
    (mp.at \in {"fetch", "returned", "raised"} /\ quality \in Sentinels)
    => /\ mp.at = "returned"
       /\ mp.gets = 0
       /\ mp.f = FetchIdle
       /\ mp.ret = Replace(mp.link, "embed-")
       /\ \A k \in 1..Len(mp.ret) : mp.ret[k] # "embed-"
       /\ mp.ret = mp.link <=> \A k \in 1..Len(mp.link) : mp.link[k] # "embed-"

\* C15 witness: the embed link of the source's comment was passed with a
\* sentinel and the download page link came back.
C15_Witness ==
    /\ quality = "lowest"
    /\ mp.at = "returned"
    /\ mp.link = <<"https://www.mp4upload.com/", "embed-", "jby2ms8ipq5d.html">>
    /\ mp.ret = <<"https://www.mp4upload.com/", "jby2ms8ipq5d.html">>
    /\ mp.gets = 0

RECURSIVE Ascending(_, _)
\* The episodes from, from + 1, ..., to, in that order.
Ascending(from, to) ==
    IF to < from THEN <<>> ELSE Append(Ascending(from, to - 1), to)

Min(a, b) == IF a < b THEN a ELSE b

\* C16: over a listing of the consecutive episodes lo..hi, shown the latest
\* first, get_episode_links(soup, start, ep_count) with start among them
\* returns ep_count episodes from start on in ascending order, cut short
\* where the listing ends: Episode-001..015 with start 1 and ep_count 12
\* gives the episodes 1 to 12.
C16_CountEpisodesFromStart ==
    /\ (gel.at # "called" /\ gel.start \in gel.lo..gel.hi)
         => /\ gel.at = "returned"
            /\ gel.out = Ascending(gel.start, Min(gel.start + gel.ep_count - 1, gel.hi))
    /\ gel.at = "returned" => Len(gel.out) <= gel.ep_count

\* C16 witness: the listing Episode-001..015, start 1 and ep_count 12 gave
\* the episodes 1 to 12, the first one first.
C16_Witness ==
    /\ gel.at = "returned"
    /\ gel.lo = 1 /\ gel.hi = 15
    /\ gel.start = 1 /\ gel.ep_count = 12
    /\ gel.out = <<1, 2, 3, 4, 5, 6, 7, 8, 9, 10, 11, 12>>

\* ------------------------------------------------------------- run claims
Resolved == {e \in Tasks : download_links[e] = "link"}
Unresolved == {e \in Tasks : download_links[e] = "exception"}
Discovered == 1..episode_links

StageRank(st) ==
    CASE st = "BYPASS_PROTECTION" -> 1
      [] st = "FETCH_LISTING" -> 2
      [] st = "RESOLVE_LINKS" -> 3
      [] st = "DOWNLOAD" -> 4
      [] st = "REPORT" -> 5
      [] OTHER -> 0

\* The ways out of the stage sequence: exit(1), an exception leaving run().
StageLeft(st) == st \in {"ABORTED", "CRASHED", "RAISED", "EXITED"}

\* C12: run() takes its stages in the order BYPASS_PROTECTION, FETCH_LISTING,
\* RESOLVE_LINKS, DOWNLOAD, REPORT, one at a time; a download task exists only
\* when every resolution task has ended and at least one gave a link; before
\* that nothing is downloaded and the directory is not made; and when every
\* resolution failed the run ends with exit code 1, no directory and no
\* download task.
C12_StagesInOrder ==
    /\ [](/\ (\E t \in Tasks : Launched(t))
               => /\ \A e \in Tasks : download_links[e] # "pending"
                  /\ Resolved # {}
                  /\ made_dir
          /\ stage \in {"DOWNLOAD", "REPORT"} => Resolved # {}
          /\ StageRank(stage) \in 1..3
               => /\ \A t \in Tasks : ~Launched(t)
                  /\ ~made_dir
          /\ stage = "ABORTED"
               => /\ exit_code = "1"
                  /\ ~made_dir
                  /\ \A t \in Tasks : ~Launched(t)
          /\ (Discovered # {} /\ Unresolved = Discovered)
               => /\ stage \in {"RESOLVE_LINKS", "ABORTED"}
                  /\ ~made_dir
                  /\ \A t \in Tasks : ~Launched(t))
    /\ [][ /\ StageRank(stage') # 0
             => StageRank(stage') \in {StageRank(stage), StageRank(stage) + 1}
           /\ (Discovered # {} /\ Unresolved = Discovered /\ stage' # stage)
             => stage' = "ABORTED" /\ exit_code' = "1"
           /\ StageLeft(stage) => StageLeft(stage')
         ]_vars

\* C12 witness: every episode was discovered, all resolutions but one
\* failed, and the run has gone through DOWNLOAD to REPORT.
C12_Witness ==
    /\ stage = "REPORT"
    /\ episode_links = NumEpisodes
    /\ Cardinality(Resolved) = 1
    /\ made_dir

\* C12 witness of the abort: every resolution failed and the run has ended
\* with exit code 1.
C12_AbortWitness ==
    /\ stage = "ABORTED"
    /\ episode_links = NumEpisodes
    /\ Unresolved = Discovered

\* C14: a download task is created once for every episode whose resolution
\* gave a link and never for one whose resolution failed, and the report's
\* count is the number of downloads that returned True:
\* reported successes <= resolved links <= discovered episodes.
C14_EachLinkConsumedOnce ==
    /\ \A e \in Tasks :
         /\ launches[e] = IF Launched(e) THEN 1 ELSE 0
         /\ Launched(e) => e \in Resolved
         /\ e \in Unresolved => launches[e] = 0 /\ result[e] = "none"
    /\ StageRank(stage) >= 4 \/ stage \in {"RAISED", "EXITED"}
         => LaunchedTasks = Resolved
    /\ Resolved \cup Unresolved \subseteq Discovered
    /\ stage = "REPORT"
         => /\ total_downloaded = Cardinality(Successes)
            /\ total_downloaded <= Cardinality(Resolved)
            /\ Cardinality(Resolved) <= episode_links

\* C14 witness: of the discovered episodes one failed to resolve, the others
\* were downloaded, one of them without success, and the report counts the
\* rest.
C14_Witness ==
    /\ stage = "REPORT"
    /\ episode_links = NumEpisodes
    /\ Cardinality(Unresolved) = 1
    /\ Failures # {}
    /\ total_downloaded = NumEpisodes - 2
    /\ total_downloaded > 0

\* C11: a failed resolution or download never aborts or cancels the other
\* units: every discovered episode's resolution is collected before run()
\* goes on, no download task is cancelled, and when the download stage is
\* over every launched download beside one that failed has ended with its
\* boolean result.
C11_ErrorsNeverAbortSiblings ==
    /\ (StageRank(stage) >= 4 \/ stage \in {"RAISED", "EXITED"})
         => Resolved \cup Unresolved = Discovered
    /\ \A t \in Tasks : result[t] # "cancelled"
    /\ stage \in {"REPORT", "EXITED"}
         => \A t \in LaunchedTasks :
              (\E u \in LaunchedTasks \ {t} : result[u] \in {"False", "raised"})
              => result[t] \in {"True", "False"}

\* C20: on a fair loop, with every operation of a token holder ending, every
\* launched download_episode task gets into the get_connection scope or ends
\* at its door, ends with its boolean result, and the download stage is
\* completed with the report.
C20_EveryDownloadEnds ==
    /\ \A t \in Tasks : Launched(t) ~> (InScope(t) \/ pc[t] = "done")
    /\ \A t \in Tasks : Launched(t) ~> result[t] \in {"True", "False"}
    /\ <>(stage = "REPORT")

\* The same without a directory in the way of any target.
C20_EndsWhereNoDirectory ==
    (\A t \in Tasks : plain0[t] # Dir) => C20_EveryDownloadEnds

====
